---- MODULE Spec2Model ----
(***************************************************************************)
(* Brin: a dynamic string (struct Brin { char *string; size_t length; })   *)
(* with the operations of brin.c.  Storage is modelled byte by byte: a     *)
(* block of memory is a sequence of bytes whose length is its allocated    *)
(* size; C offset k is element k+1.  A C-string argument is given by its   *)
(* content (the bytes before its terminator).                              *)
(***************************************************************************)
EXTENDS Integers, Sequences, FiniteSets, TLC

\* ---------------------------------------------------------------- bounds
MaxLen == 4      \* longest buffer content the operations may build
MaxArg == 2      \* longest string argument (suffix, text, pattern, separator)
MaxItems == 2    \* most elements handed to brin_join

\* Bytes the inputs are drawn from: ' ', 'A', 'a'.
Bytes == {32, 65, 97}
\* Bytes of search patterns, replacements and join items: 'A', 'a'.
PatBytes == {65, 97}
\* Bytes of separators: ' ', 'a'.
SepBytes == {32, 97}
\* What a freshly allocated, not yet written byte may hold.
Indeterminate == {0, 97}

StrOver(S, n) == UNION {[1..k -> S] : k \in 0..n}
NonEmpty(T) == {s \in T : Len(s) > 0}

Max(a, b) == IF a >= b THEN a ELSE b

\* ------------------------------------------------------------ libc model
NULL == <<>>

isspace(c) == c \in {9, 10, 11, 12, 13, 32}
tolower(c) == IF c \in 65..90 THEN c + 32 ELSE c
toupper(c) == IF c \in 97..122 THEN c - 32 ELSE c

\* strlen: the number of bytes before the first zero byte.
Strlen(mem) ==
    LET Z == {i \in 1..Len(mem) : mem[i] = 0}
    IN  IF Z = {} THEN Len(mem) ELSE (CHOOSE i \in Z : \A j \in Z : i <= j) - 1

\* The C string that starts at offset off of mem.
CStrAt(mem, off) ==
    LET rest == SubSeq(mem, off + 1, Len(mem))
    IN  SubSeq(rest, 1, Strlen(rest))

CStr(mem) == CStrAt(mem, 0)

\* A block holding exactly the C string s (strdup, or malloc + strcpy).
Block(s) == s \o <<0>>

Malloc(n, junk) == [i \in 1..n |-> junk]

\* realloc: the old bytes up to the smaller size, then indeterminate bytes.
Realloc(mem, n, junk) == [i \in 1..n |-> IF i <= Len(mem) THEN mem[i] ELSE junk]

\* memcpy/memmove(dst + d, src + s, n); both behave as a copy through a
\* temporary here, which is what memmove guarantees and what memcpy does
\* when the regions are disjoint.
Memcpy(dst, d, src, s, n) ==
    [i \in 1..Len(dst) |->
        IF i > d /\ i <= d + n /\ (s + (i - d)) \in 1..Len(src)
        THEN src[s + (i - d)] ELSE dst[i]]

Poke(mem, off, byte) ==
    [i \in 1..Len(mem) |-> IF i = off + 1 THEN byte ELSE mem[i]]

\* strcat(dest, src): src and a terminator written at strlen(dest).
Strcat(dest, src) ==
    LET d == Strlen(dest)
    IN  [i \in 1..Len(dest) |->
            IF i > d /\ i <= d + Len(src) THEN src[i - d]
            ELSE IF i = d + Len(src) + 1 THEN 0 ELSE dest[i]]

\* Mutant of Strstr: the offset of the last occurrence.
Strstr_last(hay, needle) ==
    LET P == {i \in 0..(Len(hay) - Len(needle)) :
                 SubSeq(hay, i + 1, i + Len(needle)) = needle}
    IN  IF P = {} THEN -1 ELSE CHOOSE i \in P : \A j \in P : j <= i

\* strstr(hay, needle) - hay: offset of the first occurrence, or -1.
Strstr(hay, needle) ==
    LET P == {i \in 0..(Len(hay) - Len(needle)) :
                 SubSeq(hay, i + 1, i + Len(needle)) = needle}
    IN  IF P = {} THEN -1 ELSE CHOOSE i \in P : \A j \in P : i <= j

\* --------------------------------------------------------- the operations
\* A Brin value is [string |-> block or NULL, length |-> size_t].

brin_new(src, junk) ==
    LET len == Len(src)
        mem == Malloc(len + 1, junk)
    IN  [string |-> Memcpy(mem, 0, Block(src), 0, len + 1), length |-> len]

\* Mutant of brin_concat: no room is asked for the terminator.
brin_concat_tight(b, suffix, junk) ==
    LET suffix_len == Len(suffix)
        new_length == b.length + suffix_len
        new_string == Realloc(b.string, new_length, junk)
    IN  [string |-> Strcat(new_string, suffix), length |-> new_length]

\* Mutant of brin_concat: the suffix is written over the last byte.
brin_concat_over(b, suffix, junk) ==
    LET suffix_len == Len(suffix)
        new_length == b.length + suffix_len
        new_string == Realloc(b.string, new_length + 1, junk)
    IN  [string |-> Strcat(Poke(new_string, Max(0, b.length - 1), 0), suffix),
         length |-> new_length]

brin_concat(b, suffix, junk) ==
    LET suffix_len == Len(suffix)
        new_length == b.length + suffix_len
        new_string == Realloc(b.string, new_length + 1, junk)
    IN  [string |-> Strcat(new_string, suffix), length |-> new_length]

brin_contains(b, str) == IF Strstr(CStr(b.string), str) # -1 THEN 1 ELSE 0

\* strcmp(b->string, string) == 0
brin_equals(b, str) == IF CStr(b.string) = str THEN 1 ELSE 0

brin_index_of(b, str) == Strstr(CStr(b.string), str)

\* Mutant of brin_insert: the tail is copied from the start of the old block.
brin_insert_tail0(b, index, str, junk) ==
    LET insert_len == Len(str)
        new_length == b.length + insert_len
        m0 == Malloc(new_length + 1, junk)
        m1 == Memcpy(m0, 0, b.string, 0, index)
        m2 == Memcpy(m1, index, str, 0, insert_len)
        m3 == Memcpy(m2, index + insert_len, b.string, 0, b.length - index)
    IN  [string |-> Poke(m3, new_length, 0), length |-> new_length]

brin_insert(b, index, str, junk) ==
    LET insert_len == Len(str)
        new_length == b.length + insert_len
        m0 == Malloc(new_length + 1, junk)
        m1 == Memcpy(m0, 0, b.string, 0, index)
        m2 == Memcpy(m1, index, str, 0, insert_len)
        m3 == Memcpy(m2, index + insert_len, b.string, index, b.length - index)
    IN  [string |-> Poke(m3, new_length, 0), length |-> new_length]

\* Mutant of brin_insert_alias: the block is grown and its tail shifted in
\* place before the text is copied from it.
brin_insert_alias_shift(b, index, k, junk) ==
    LET insert_len == Len(CStrAt(b.string, k))
        new_length == b.length + insert_len
        m1 == Realloc(b.string, new_length + 1, junk)
        m2 == Memcpy(m1, index + insert_len, m1, index, b.length - index)
        m3 == Memcpy(m2, index, m2, k, insert_len)
    IN  [string |-> Poke(m3, new_length, 0), length |-> new_length]

\* brin_insert(b, index, b->string + k): the string argument is read where
\* it lies, in the old block, by strlen and by the second memcpy; the old
\* block is freed after the three copies.
brin_insert_alias(b, index, k, junk) ==
    LET insert_len == Len(CStrAt(b.string, k))
        new_length == b.length + insert_len
        m0 == Malloc(new_length + 1, junk)
        m1 == Memcpy(m0, 0, b.string, 0, index)
        m2 == Memcpy(m1, index, b.string, k, insert_len)
        m3 == Memcpy(m2, index + insert_len, b.string, index, b.length - index)
    IN  [string |-> Poke(m3, new_length, 0), length |-> new_length]

\* Mutant of brin_remove: the tail is copied from start, not from end.
brin_remove_from_start(b, start, end, junk) ==
    LET new_len == b.length - (end - start)
        m0 == Malloc(new_len + 1, junk)
        m1 == Memcpy(m0, 0, b.string, 0, start)
        m2 == Memcpy(m1, start, b.string, start, b.length - end)
    IN  [string |-> Poke(m2, new_len, 0), length |-> new_len]

\* Mutant of brin_remove: the terminator of the new block is not written.
brin_remove_noterm(b, start, end, junk) ==
    LET new_len == b.length - (end - start)
        m0 == Malloc(new_len + 1, junk)
        m1 == Memcpy(m0, 0, b.string, 0, start)
        m2 == Memcpy(m1, start, b.string, end, b.length - end)
    IN  [string |-> m2, length |-> new_len]

brin_remove(b, start, end, junk) ==
    LET new_len == b.length - (end - start)
        m0 == Malloc(new_len + 1, junk)
        m1 == Memcpy(m0, 0, b.string, 0, start)
        m2 == Memcpy(m1, start, b.string, end, b.length - end)
    IN  [string |-> Poke(m2, new_len, 0), length |-> new_len]

\* The scan of brin_trim_start: the offset of the first byte that is the
\* terminator or is not whitespace.
\* Mutant of SkipSpace: the scan stops after one whitespace byte.
SkipSpace_one(mem, k) ==
    IF k = 0 /\ k < Len(mem) /\ mem[k + 1] # 0 /\ isspace(mem[k + 1])
    THEN k + 1 ELSE k

RECURSIVE SkipSpace(_, _)
SkipSpace(mem, k) ==
    IF k < Len(mem) /\ mem[k + 1] # 0 /\ isspace(mem[k + 1])
    THEN SkipSpace(mem, k + 1) ELSE k

\* brin_trim_start up to and including its memmove: the shifted storage and
\* the length it will have (b->length is not written yet).
trim_start_move(b) ==
    LET start == SkipSpace(b.string, 0)
        new_len == Len(CStrAt(b.string, start))
    IN  [string |-> Memcpy(b.string, 0, b.string, start, new_len + 1),
         length |-> b.length, new_len |-> new_len]

brin_trim_start(b, junk) ==
    LET m == trim_start_move(b)
    IN  [string |-> Realloc(m.string, m.new_len + 1, junk), length |-> m.new_len]

\* Mutant of scan_back: the byte is read before the position is tested.
RECURSIVE scan_back_unguarded(_, _, _)
scan_back_unguarded(mem, e, reads) ==
    IF e >= 0 /\ e < Len(mem) /\ isspace(mem[e + 1])
    THEN scan_back_unguarded(mem, e - 1, reads \cup {e})
    ELSE [end |-> e, reads |-> reads \cup {e}]

\* The backward scan of brin_trim_end from offset e: the offset it stops at
\* and the offsets whose byte it read.  end >= b->string is tested first and
\* the byte is read only when it holds.  With e = -1 the pointer is one before
\* the block; on the flat address space of every supported build it compares
\* below b->string and the loop stops without a read.
RECURSIVE scan_back(_, _, _)
scan_back(mem, e, reads) ==
    IF e >= 0
    THEN IF e < Len(mem) /\ isspace(mem[e + 1])
         THEN scan_back(mem, e - 1, reads \cup {e})
         ELSE [end |-> e, reads |-> reads \cup {e}]
    ELSE [end |-> e, reads |-> reads]

ScanBack(mem, e) == scan_back(mem, e, {}).end

\* brin_trim_end up to and including the write of the terminator.
trim_end_cut(b) ==
    LET end == ScanBack(b.string, b.length - 1)
        new_len == end + 1
    IN  [string |-> Poke(b.string, new_len, 0), length |-> b.length,
         new_len |-> new_len]

\* Mutant of brin_trim_end: the terminator is not written before the shrink.
brin_trim_end_noterm(b, junk) ==
    LET m == trim_end_cut(b)
    IN  [string |-> Realloc(b.string, m.new_len + 1, junk), length |-> m.new_len]

brin_trim_end(b, junk) ==
    LET m == trim_end_cut(b)
    IN  [string |-> Realloc(m.string, m.new_len + 1, junk), length |-> m.new_len]

\* Mutant of brin_trim: the leading whitespace is left in place.
brin_trim_end_only(b, junk) == brin_trim_end(b, junk)

brin_trim(b, junk) == brin_trim_start(brin_trim_end(b, junk), junk)

brin_to_lower(b) ==
    [string |-> [i \in 1..Len(b.string) |->
                    IF i <= b.length THEN tolower(b.string[i]) ELSE b.string[i]],
     length |-> b.length]

\* Mutant of brin_to_upper: the case of every letter is swapped.
brin_to_upper_swap(b) ==
    [string |-> [i \in 1..Len(b.string) |->
                    IF i > b.length THEN b.string[i]
                    ELSE IF b.string[i] \in 65..90 THEN b.string[i] + 32
                    ELSE toupper(b.string[i])],
     length |-> b.length]

brin_to_upper(b) ==
    [string |-> [i \in 1..Len(b.string) |->
                    IF i <= b.length THEN toupper(b.string[i]) ELSE b.string[i]],
     length |-> b.length]

\* Mutant of brin_destroy: the pointer to the freed block is kept.
brin_destroy_dangling(b) == [string |-> b.string, length |-> 0]

\* brin_destroy on a non-null b: the fields it leaves.
brin_destroy(b) == [string |-> NULL, length |-> 0]

\* Mutant of destroy_frees: the block is freed whatever b->string is.
destroy_frees_always(b) == 1

\* The number of blocks brin_destroy frees: if (b && b->string) free(b->string).
destroy_frees(b) == IF b.string # NULL THEN 1 ELSE 0

brin_is_empty(b) == IF b.length = 0 THEN 1 ELSE 0

\* The loop of brin_is_whitespace from offset i on.
RECURSIVE whitespace_loop(_, _)
whitespace_loop(b, i) ==
    IF i >= b.length THEN 1
    ELSE IF ~isspace(b.string[i + 1]) THEN 0
    ELSE whitespace_loop(b, i + 1)

\* Mutant of brin_is_whitespace: no early return on the empty buffer.
brin_is_whitespace_vacuous(b) == whitespace_loop(b, 0)

brin_is_whitespace(b) == IF b.length = 0 THEN 0 ELSE whitespace_loop(b, 0)

\* Mutant of insert_invalid: the index equal to the length is refused.
insert_invalid_end(b, index) == index < 0 \/ index >= b.length

\* The tests of brin_insert, brin_remove and brin_replace on the values of
\* their arguments (!*to_replace: the pattern is the empty string).
insert_invalid(b, index) == index < 0 \/ index > b.length

remove_invalid(b, start, end) == start < 0 \/ end < start \/ end > b.length

replace_invalid(to_replace) == to_replace = <<>>

\* The operations and the pointers each takes: "b" is the Brin *, "element"
\* stands for one array[i] handed to brin_join.
Ops == {"new", "concat", "contains", "equals", "index_of", "insert", "is_empty",
        "is_whitespace", "to_lower", "to_upper", "trim_start", "trim_end", "trim",
        "remove", "replace", "split", "join", "destroy"}

Pointers(op) ==
    CASE op \in {"concat", "contains", "equals", "index_of", "insert", "split"} ->
            {"b", "string"}
      [] op = "replace" -> {"b", "to_replace", "replace_by"}
      [] op = "new" -> {"string"}
      [] op = "join" -> {"array", "sep", "element"}
      [] OTHER -> {"b"}

\* Mutant of null_check: only the test at the head of the operation itself.
null_check_own(op, absent) ==
    CASE op \in {"concat", "contains", "equals", "index_of", "insert", "split"} ->
            absent \cap {"b", "data", "string"} # {}
      [] op \in {"is_empty", "is_whitespace", "to_lower", "to_upper", "trim_start",
                 "trim_end", "remove"} ->
            absent \cap {"b", "data"} # {}
      [] op = "replace" -> absent \cap {"b", "to_replace", "replace_by"} # {}
      [] op = "new" -> "string" \in absent
      [] op = "join" -> absent \cap {"array", "sep", "element"} # {}
      [] OTHER -> FALSE

\* Whether the call exits on a test for a null pointer, absent being the
\* pointers that are null ("data" is b->string).  brin_trim has no test: it
\* calls brin_trim_end, which has.  brin_replace does not test b->string: it
\* hands b->string + 0 to brin_new, which tests it.  brin_destroy tests b only
\* around free and dereferences it after.
RECURSIVE null_check(_, _)
null_check(op, absent) ==
    CASE op \in {"concat", "contains", "equals", "index_of", "insert", "split"} ->
            absent \cap {"b", "data", "string"} # {}
      [] op \in {"is_empty", "is_whitespace", "to_lower", "to_upper", "trim_start",
                 "trim_end", "remove"} ->
            absent \cap {"b", "data"} # {}
      [] op = "trim" -> null_check("trim_end", absent)
      [] op = "replace" ->
            \/ absent \cap {"b", "to_replace", "replace_by"} # {}
            \/ "data" \in absent /\ null_check("new", {"string"})
      [] op = "new" -> "string" \in absent
      [] op = "join" -> absent \cap {"array", "sep", "element"} # {}
      [] OTHER -> FALSE

\* One search of brin_replace: a temporary Brin built from b->string + offset,
\* index_of on it (the temporary is destroyed right after).
replace_find(b, off, to_replace, junk) ==
    brin_index_of(brin_new(CStrAt(b.string, off), junk), to_replace)

\* Mutants of next_offset: one byte too far; not past the replacement; twice
\* the replacement.
next_offset_skip(global_index, len_new) == global_index + len_new + 1
next_offset_rescan(global_index, len_new) == global_index

next_offset_twice(global_index, len_new) == global_index + len_new + len_new

\* offset = global_index + len_new
next_offset(global_index, len_new) == global_index + len_new

\* strtok(mem + pos, sep) on a writable block: skips the delimiters, ends the
\* token at the next delimiter by writing a terminator over it.  tok is the
\* offset of the token or -1 (a null pointer); save is where the next call
\* resumes.
RECURSIVE SkipDelims(_, _, _)
SkipDelims(mem, k, delims) ==
    IF k < Len(mem) /\ mem[k + 1] # 0 /\ mem[k + 1] \in delims
    THEN SkipDelims(mem, k + 1, delims) ELSE k

RECURSIVE TokenEnd(_, _, _)
TokenEnd(mem, k, delims) ==
    IF k < Len(mem) /\ mem[k + 1] # 0 /\ mem[k + 1] \notin delims
    THEN TokenEnd(mem, k + 1, delims) ELSE k

ByteAt(mem, k) == IF k < Len(mem) THEN mem[k + 1] ELSE 0

Range(s) == {s[i] : i \in 1..Len(s)}

\* Mutant of strtok: the token is not ended by a terminator.
strtok_noterm(mem, pos, sep) ==
    LET s == SkipDelims(mem, pos, Range(sep))
        e == TokenEnd(mem, s, Range(sep))
    IN  IF ByteAt(mem, s) = 0
        THEN [tok |-> -1, mem |-> mem, save |-> s]
        ELSE IF ByteAt(mem, e) = 0
        THEN [tok |-> s, mem |-> mem, save |-> e]
        ELSE [tok |-> s, mem |-> mem, save |-> e + 1]

\* Mutant of strtok: leading delimiters are not skipped (empty fields).
strtok_noskip(mem, pos, sep) ==
    LET s == pos
        e == TokenEnd(mem, s, Range(sep))
    IN  IF ByteAt(mem, s) = 0
        THEN [tok |-> -1, mem |-> mem, save |-> s]
        ELSE IF ByteAt(mem, e) = 0
        THEN [tok |-> s, mem |-> mem, save |-> e]
        ELSE [tok |-> s, mem |-> Poke(mem, e, 0), save |-> e + 1]

strtok(mem, pos, sep) ==
    LET s == SkipDelims(mem, pos, Range(sep))
        e == TokenEnd(mem, s, Range(sep))
    IN  IF ByteAt(mem, s) = 0
        THEN [tok |-> -1, mem |-> mem, save |-> s]
        ELSE IF ByteAt(mem, e) = 0
        THEN [tok |-> s, mem |-> mem, save |-> e]
        ELSE [tok |-> s, mem |-> Poke(mem, e, 0), save |-> e + 1]

\* The counting loop of brin_split over the block temp.
RECURSIVE split_count(_, _, _, _)
split_count(mem, pos, sep, count) ==
    LET r == strtok(mem, pos, sep)
    IN  IF r.tok = -1 THEN count
        ELSE split_count(r.mem, r.save, sep, count + 1)

\* array[i] = value, inside the allocated slots only.
SetSlot(array, i, value) ==
    [k \in 1..Len(array) |-> IF k = i + 1 THEN value ELSE array[k]]

\* The filling loop of brin_split over the block copy, then array[i] = NULL.
RECURSIVE split_fill(_, _, _, _, _)
split_fill(mem, pos, sep, array, i) ==
    LET r == strtok(mem, pos, sep)
    IN  IF r.tok = -1 THEN SetSlot(array, i, NULL)
        ELSE split_fill(r.mem, r.save, sep,
                        SetSlot(array, i, Block(CStrAt(r.mem, r.tok))), i + 1)

\* A slot of a freshly allocated pointer array: an indeterminate pointer.
Wild == <<-1>>

brin_split(b, sep) ==
    LET copy == Block(CStr(b.string))
        temp == Block(CStr(copy))
        count == split_count(temp, 0, sep, 0)
        array == [k \in 1..(count + 1) |-> Wild]
    IN  split_fill(copy, 0, sep, array, 0)

\* The block the tokenizing loops of brin_split ran over, after them.
RECURSIVE split_mem(_, _, _)
split_mem(mem, pos, sep) ==
    LET r == strtok(mem, pos, sep)
    IN  IF r.tok = -1 THEN r.mem ELSE split_mem(r.mem, r.save, sep)

\* Mutant of split_buffer: strtok runs over b->string itself.
split_buffer_inplace(b, sep) == split_mem(b.string, 0, sep)

\* b->string after brin_split: strtok is handed the two strdup copies only,
\* never b->string.
split_buffer(b, sep) == b.string

\* The allocations of brin_split, in order: the two strdup of the content,
\* the array, the strdup of a token.
SplitAllocs == {"copy", "temp", "array", "token"}

\* How brin_split goes on when the allocation named by fail returns NULL:
\* whether the result is tested before it is used, and how many of the blocks
\* brin_split allocated are not freed when it exits.  copy, array and every
\* array[i] are tested, and what was allocated is freed before exit; temp is
\* handed to strtok untested, copy being allocated.
split_failure(fail) ==
    CASE fail = "copy" -> [tested |-> TRUE, held |-> 0]
      [] fail = "temp" -> [tested |-> FALSE, held |-> 1]
      [] fail = "array" -> [tested |-> TRUE, held |-> 1 - 1]
      [] OTHER -> [tested |-> TRUE, held |-> 1 + 1 - 1 - 1]

\* Mutant of join_loop: the separator follows every element.
RECURSIVE join_loop_trailing(_, _, _, _, _)
join_loop_trailing(b, array, i, sep, junk) ==
    IF i >= Len(array) THEN b
    ELSE LET b1 == brin_concat(b, array[i + 1], junk)
             b2 == IF i < Len(array) THEN brin_concat(b1, sep, junk) ELSE b1
         IN  join_loop_trailing(b2, array, i + 1, sep, junk)

\* The loop of brin_join from element i on (array is 1-based here).
RECURSIVE join_loop(_, _, _, _, _)
join_loop(b, array, i, sep, junk) ==
    IF i >= Len(array) THEN b
    ELSE LET b1 == brin_concat(b, array[i + 1], junk)
             b2 == IF i < Len(array) - 1 THEN brin_concat(b1, sep, junk) ELSE b1
         IN  join_loop(b2, array, i + 1, sep, junk)

brin_join(array, sep, junk) == join_loop(brin_new(<<>>, junk), array, 0, sep, junk)

\* ------------------------------------------------------------- the state
VARIABLES
    string,     \* b->string: the block the buffer owns, or NULL
    length,     \* b->length
    status,     \* "ok", or "fatal" once exit(EXIT_FAILURE) was called
    pc,         \* "idle" between calls, "replace" inside the loop of brin_replace
    offset,     \* the local variable offset of brin_replace
    last,       \* the call in progress or last returned (name, arguments, buffer
                \* before it), until the caller is done with its result
    tokens,     \* the array brin_split returned, until the caller frees it
    allocFail,  \* an allocation of the call in progress or last returned failed
    heap        \* number of live blocks allocated on behalf of the buffer

vars == <<string, length, status, pc, offset, last, tokens, allocFail, heap>>

Cur == [string |-> string, length |-> length]

\* What a call keeps of the call that returned just before it.
Prev(c) == [op |-> c.op, pre |-> c.pre, i |-> c.i, j |-> c.j, s |-> c.s]

NoPrev == [op |-> "-", pre |-> [string |-> NULL, length |-> 0], i |-> 0, j |-> 0,
           s |-> <<>>]

\* The record of a call: its name, the buffer it started with, its arguments,
\* the call it follows (when the caller made it right after that one), the
\* int it returns (queries), which of its pointer arguments are null, the
\* offset in b->string its string argument points at (-1: not in the buffer)
\* and, for brin_replace, where each byte of the buffer comes from (its
\* position in the content the call started with, 0 for an inserted byte).
Call(op, i, j, s, t, items) ==
    [op |-> op, pre |-> Cur, i |-> i, j |-> j, s |-> s, t |-> t,
     items |-> items, from |-> last.op, prev |-> Prev(last), ret |-> 0,
     absent |-> {}, alias |-> -1, marks |-> <<>>]

Sources == StrOver(Bytes, MaxLen)
Strings == StrOver(Bytes, MaxArg)
Patterns == StrOver(PatBytes, MaxArg)
Separators == StrOver(SepBytes, MaxArg)
ItemLists == UNION {[1..k -> Patterns] : k \in 0..MaxItems}

NoCall == [op |-> "-", pre |-> [string |-> NULL, length |-> 0], i |-> 0, j |-> 0,
           s |-> <<>>, t |-> <<>>, items |-> <<>>, from |-> "-", prev |-> NoPrev,
           ret |-> 0, absent |-> {}, alias |-> -1, marks |-> <<>>]

\* Between two calls, the result of the previous one dealt with.
Idle == status = "ok" /\ pc = "idle" /\ last = NoCall

\* The buffer is live and the caller may call an operation on it.
Live == Idle /\ string # NULL

\* The caller may call an operation on the live buffer: between two calls, or
\* right after one of the calls named in ops returned.
After(ops) ==
    /\ status = "ok" /\ pc = "idle" /\ string # NULL
    /\ last = NoCall \/ last.op \in ops

\* The buffer after a call that returned to its caller.  An array a previous
\* brin_split returned is the caller's and is not touched.
Returned(b, call, failed) ==
    /\ string' = b.string
    /\ length' = b.length
    /\ last' = call
    /\ status' = "ok"
    /\ pc' = "idle"
    /\ offset' = 0
    /\ tokens' = tokens
    /\ allocFail' = failed

Return(b, call) == Returned(b, call, FALSE)

\* exit(EXIT_FAILURE) after an allocation failed, the buffer being b then.
AllocFatal(b, call) ==
    /\ string' = b.string
    /\ length' = b.length
    /\ last' = call
    /\ status' = "fatal"
    /\ allocFail' = TRUE
    /\ UNCHANGED <<pc, offset, tokens>>

\* exit(EXIT_FAILURE) from the check of the arguments, before anything is
\* allocated or written.
ArgFatal(call) ==
    /\ last' = call
    /\ status' = "fatal"
    /\ allocFail' = FALSE
    /\ UNCHANGED <<string, length, pc, offset, tokens>>

\* A null pointer is dereferenced: the process is killed by the fault
\* ("crash"), or, where address 0 is mapped, the access goes through and the
\* run goes on with memory outside the program's objects read or overwritten
\* ("wild").  The buffer of the caller is not what is accessed.
NullDeref(call) ==
    /\ last' = call
    /\ status' \in {"crash", "wild"}
    /\ allocFail' = FALSE
    /\ UNCHANGED <<string, length, pc, offset, tokens>>

Init ==
    \E src \in Sources, junk \in Indeterminate :
        /\ string = brin_new(src, junk).string
        /\ length = brin_new(src, junk).length
        /\ status = "ok"
        /\ pc = "idle"
        /\ offset = 0
        /\ last = [op |-> "new", pre |-> [string |-> NULL, length |-> 0],
                   i |-> 0, j |-> 0, s |-> src, t |-> <<>>, items |-> <<>>,
                   from |-> "-", prev |-> NoPrev, ret |-> 0, absent |-> {},
                   alias |-> -1, marks |-> <<>>]
        /\ tokens = <<>>
        /\ allocFail = FALSE
        /\ heap = 1

\* brin_new into the destroyed buffer.
New ==
    /\ Idle /\ string = NULL
    /\ \E src \in Sources, junk \in Indeterminate, ok \in BOOLEAN :
        LET call == Call("new", 0, 0, src, <<>>, <<>>)
        IN  IF ok
            THEN Return(brin_new(src, junk), call) /\ heap' = heap + 1
            ELSE AllocFatal(Cur, call) /\ heap' = heap

\* brin_destroy, on a live buffer or on one already destroyed.
Destroy ==
    /\ status = "ok" /\ pc = "idle"
    /\ last = NoCall \/ last.op = "split"
    /\ Return(brin_destroy(Cur), Call("destroy", 0, 0, <<>>, <<>>, <<>>))
    /\ heap' = heap - destroy_frees(Cur)

Concat ==
    /\ Live
    /\ \E suffix \in Strings, junk \in Indeterminate, ok \in BOOLEAN :
        LET call == Call("concat", 0, 0, suffix, <<>>, <<>>)
        IN  /\ length + Len(suffix) <= MaxLen
            /\ IF ok THEN Return(brin_concat(Cur, suffix, junk), call)
                     ELSE AllocFatal(Cur, call)
            /\ heap' = heap

Insert ==
    /\ Live
    /\ \E index \in -1..(length + 1), str \in Strings, junk \in Indeterminate,
          ok \in BOOLEAN :
        LET call == Call("insert", index, 0, str, <<>>, <<>>)
        IN  /\ length + Len(str) <= MaxLen
            /\ IF insert_invalid(Cur, index) THEN ArgFatal(call) /\ heap' = heap
               ELSE IF ok THEN Return(brin_insert(Cur, index, str, junk), call)
                               /\ heap' = heap + 1 - 1
               ELSE AllocFatal(Cur, call) /\ heap' = heap

\* brin_insert with a string argument that points into the buffer itself.
InsertAlias ==
    /\ Live
    /\ \E index \in 0..length, k \in 0..length, junk \in Indeterminate,
          ok \in BOOLEAN :
        LET call == [Call("insert", index, 0, CStrAt(string, k), <<>>, <<>>)
                        EXCEPT !.alias = k]
        IN  /\ length + (length - k) <= MaxLen
            /\ IF ok THEN Return(brin_insert_alias(Cur, index, k, junk), call)
                           /\ heap' = heap + 1 - 1
               ELSE AllocFatal(Cur, call) /\ heap' = heap

\* A failed malloc in brin_remove is a plain return.  Right after brin_insert
\* the caller takes out what it has just put in.
Remove ==
    /\ After({"insert"})
    /\ \E start \in -1..(length + 1), end \in -1..(length + 1),
          junk \in Indeterminate, ok \in BOOLEAN :
        LET call == Call("remove", start, end, <<>>, <<>>, <<>>)
        IN  /\ last.op = "insert" => (start = last.i /\ end = last.i + Len(last.s))
            /\ IF remove_invalid(Cur, start, end) THEN ArgFatal(call) /\ heap' = heap
               ELSE IF ok THEN Return(brin_remove(Cur, start, end, junk), call)
                               /\ heap' = heap + 1 - 1
               ELSE Returned(Cur, call, TRUE) /\ heap' = heap

ToLower ==
    /\ After({"to_lower"})
    /\ Return(brin_to_lower(Cur), Call("to_lower", 0, 0, <<>>, <<>>, <<>>))
    /\ heap' = heap

ToUpper ==
    /\ After({"to_upper", "split"})
    /\ Return(brin_to_upper(Cur), Call("to_upper", 0, 0, <<>>, <<>>, <<>>))
    /\ heap' = heap

TrimStart ==
    /\ After({"trim_start"})
    /\ \E junk \in Indeterminate, ok \in BOOLEAN :
        LET call == Call("trim_start", 0, 0, <<>>, <<>>, <<>>)
            m == trim_start_move(Cur)
        IN  IF ok THEN Return(brin_trim_start(Cur, junk), call)
            ELSE AllocFatal([string |-> m.string, length |-> m.length], call)
    /\ heap' = heap

TrimEnd ==
    /\ After({"trim_end", "trim_start"})
    /\ \E junk \in Indeterminate, ok \in BOOLEAN :
        LET call == Call("trim_end", 0, 0, <<>>, <<>>, <<>>)
            m == trim_end_cut(Cur)
        IN  IF ok THEN Return(brin_trim_end(Cur, junk), call)
            ELSE AllocFatal([string |-> m.string, length |-> m.length], call)
    /\ heap' = heap

Trim ==
    /\ After({"trim"})
    /\ \E junk \in Indeterminate, ok1 \in BOOLEAN, ok2 \in BOOLEAN :
        LET call == Call("trim", 0, 0, <<>>, <<>>, <<>>)
            m1 == trim_end_cut(Cur)
            b1 == brin_trim_end(Cur, junk)
            m2 == trim_start_move(b1)
        IN  IF ~ok1 THEN AllocFatal([string |-> m1.string, length |-> m1.length], call)
            ELSE IF ~ok2 THEN AllocFatal([string |-> m2.string, length |-> m2.length], call)
            ELSE Return(brin_trim(Cur, junk), call)
    /\ heap' = heap

\* A query returns its int and leaves the buffer as it is.
Query(call, ret) ==
    /\ Returned(Cur, [call EXCEPT !.ret = ret], FALSE)
    /\ heap' = heap

Contains ==
    /\ Live
    /\ \E str \in Strings :
        Query(Call("contains", 0, 0, str, <<>>, <<>>), brin_contains(Cur, str))

Equals ==
    /\ Live
    /\ \E str \in Strings :
        Query(Call("equals", 0, 0, str, <<>>, <<>>), brin_equals(Cur, str))

IndexOf ==
    /\ Live
    /\ \E str \in Strings :
        Query(Call("index_of", 0, 0, str, <<>>, <<>>), brin_index_of(Cur, str))

IsEmpty ==
    /\ After({"new"})
    /\ Query(Call("is_empty", 0, 0, <<>>, <<>>, <<>>), brin_is_empty(Cur))

IsWhitespace ==
    /\ After({"new", "insert", "trim"})
    /\ Query(Call("is_whitespace", 0, 0, <<>>, <<>>, <<>>), brin_is_whitespace(Cur))

\* The replacement of brin_replace cannot make the buffer longer than MaxLen:
\* at most (len - off) \div len_old occurrences are still to be replaced.
Fits(len, off, len_old, len_new) ==
    len + ((len - off) \div len_old) * Max(0, len_new - len_old) <= MaxLen

\* brin_replace up to the loop: the argument check and the three locals.
ReplaceCall ==
    /\ Live
    /\ \E to_replace \in Patterns, replace_by \in Patterns :
        LET call == Call("replace", 0, 0, to_replace, replace_by, <<>>)
        IN  IF replace_invalid(to_replace) THEN ArgFatal(call) /\ heap' = heap
            ELSE /\ Fits(length, 0, Len(to_replace), Len(replace_by))
                 /\ last' = [call EXCEPT !.marks = [k \in 1..length |-> k]]
                 /\ pc' = "replace"
                 /\ offset' = 0
                 /\ tokens' = <<>>
                 /\ allocFail' = FALSE
                 /\ UNCHANGED <<string, length, status, heap>>

\* The body of the loop of brin_replace on buffer b at scan offset off:
\* the search, then (when found) the buffer after brin_remove (unchanged when
\* its malloc failed, okRem being false), the buffer after brin_insert and the
\* next offset.
replace_body(b, off, to_replace, replace_by, okRem, junk) ==
    LET len_old == Len(to_replace)
        len_new == Len(replace_by)
        local_index == replace_find(b, off, to_replace, junk)
        global_index == off + local_index
        b1 == IF local_index # -1 /\ okRem
              THEN brin_remove(b, global_index, global_index + len_old, junk)
              ELSE b
        b2 == IF local_index # -1
              THEN brin_insert(b1, global_index, replace_by, junk)
              ELSE b
    IN  [local_index |-> local_index, global_index |-> global_index,
         removed |-> b1, inserted |-> b2,
         offset |-> IF local_index # -1 THEN next_offset(global_index, len_new)
                    ELSE off]

\* Where the bytes come from after one replacement at global_index: those
\* before it, the inserted ones, those after the removed range (after
\* global_index itself when brin_remove returned on its failed malloc).
replace_marks(marks, global_index, len_old, len_new, okRem) ==
    SubSeq(marks, 1, global_index) \o [k \in 1..len_new |-> 0]
        \o SubSeq(marks, (IF okRem THEN global_index + len_old ELSE global_index) + 1,
                   Len(marks))

\* The blocks the search of one iteration leaves allocated: temp is made by
\* brin_new and released by brin_destroy before anything else is done.
replace_temp(b, off, okNew) ==
    IF okNew THEN 1 - destroy_frees(brin_new(CStrAt(b.string, off), 0)) ELSE 0

\* One iteration of the loop of brin_replace; okNew, okRem and okIns say
\* whether the malloc of brin_new, brin_remove and brin_insert succeeds.
ReplaceStep(okNew, okRem, okIns) ==
    /\ status = "ok" /\ pc = "replace"
    /\ \E junk \in Indeterminate :
        LET r == replace_body(Cur, offset, last.s, last.t, okRem, junk)
        IN  IF ~okNew THEN AllocFatal(Cur, last)
            ELSE IF r.local_index = -1
            THEN /\ pc' = "idle"
                 /\ offset' = 0
                 /\ UNCHANGED <<string, length, status, last, tokens, allocFail>>
            ELSE IF remove_invalid(Cur, r.global_index, r.global_index + Len(last.s))
            THEN ArgFatal(last)
            ELSE IF insert_invalid(r.removed, r.global_index)
            THEN /\ string' = r.removed.string
                 /\ length' = r.removed.length
                 /\ status' = "fatal"
                 /\ allocFail' = FALSE
                 /\ UNCHANGED <<pc, offset, last, tokens>>
            ELSE IF ~okIns THEN AllocFatal(r.removed, last)
            ELSE /\ Fits(r.inserted.length, r.offset, Len(last.s), Len(last.t))
                 /\ string' = r.inserted.string
                 /\ length' = r.inserted.length
                 /\ offset' = r.offset
                 /\ allocFail' = (allocFail \/ ~okRem)
                 /\ last' = [last EXCEPT !.marks =
                                replace_marks(last.marks, r.global_index, Len(last.s),
                                              Len(last.t), okRem)]
                 /\ UNCHANGED <<status, pc, tokens>>
    /\ heap' = heap + replace_temp(Cur, offset, okNew)

ReplaceIter == \E okNew \in BOOLEAN, okRem \in BOOLEAN, okIns \in BOOLEAN :
                   ReplaceStep(okNew, okRem, okIns)

ReplaceIterOK == ReplaceStep(TRUE, TRUE, TRUE)

\* brin_split: the buffer is only read; the caller gets the array.  When an
\* allocation fails the call exits, except for temp: strtok(NULL, sep) then
\* resumes from whatever an earlier strtok saved, a null pointer at first.
Split ==
    /\ status = "ok" /\ pc = "idle" /\ string # NULL
    /\ last = NoCall \/ last.op = "join"
    /\ \E sep \in Separators, fail \in SplitAllocs \cup {"none"} :
        LET joined == last.op = "join"
            call == [op |-> "split", pre |-> Cur, i |-> 0, j |-> 0, s |-> sep,
                     t |-> IF joined THEN last.s ELSE <<>>,
                     items |-> IF joined THEN last.items ELSE <<>>,
                     from |-> last.op, prev |-> NoPrev, ret |-> 0, absent |-> {},
                     alias |-> -1, marks |-> <<>>]
            failed == [call EXCEPT !.ret = split_failure(fail).held]
        IN  IF fail = "none"
            THEN /\ tokens' = brin_split(Cur, sep)
                 /\ string' = split_buffer(Cur, sep)
                 /\ last' = call
                 /\ allocFail' = FALSE
                 /\ UNCHANGED <<length, status, pc, offset>>
            ELSE IF split_failure(fail).tested
            THEN /\ fail = "token" => Len(brin_split(Cur, sep)) > 1
                 /\ AllocFatal(Cur, failed)
            ELSE /\ last' = failed
                 /\ status' \in {"crash", "wild"}
                 /\ allocFail' = TRUE
                 /\ UNCHANGED <<string, length, pc, offset, tokens>>
    /\ heap' = heap

RECURSIVE SumLen(_)
SumLen(array) == IF array = <<>> THEN 0 ELSE Len(Head(array)) + SumLen(Tail(array))

\* brin_join into the destroyed buffer.
Join ==
    /\ Idle /\ string = NULL
    /\ \E array \in ItemLists, sep \in Separators, junk \in Indeterminate, ok \in BOOLEAN :
        LET call == Call("join", 0, 0, sep, <<>>, array)
        IN  /\ SumLen(array) + Max(0, Len(array) - 1) * Len(sep) <= MaxLen
            /\ IF ok THEN Return(brin_join(array, sep, junk), call) /\ heap' = heap + 1
                     ELSE AllocFatal(Cur, call) /\ heap' = heap

\* An operation called with a null pointer among its arguments, or on a
\* buffer whose b->string is null: the exit of its test, or the dereference.
NullCall ==
    /\ Idle
    /\ \E op \in Ops : \E nulls \in SUBSET Pointers(op) :
        LET nodata == "b" \in Pointers(op) /\ "b" \notin nulls
                          /\ string = NULL /\ op # "destroy"
            absent == nulls \cup (IF nodata THEN {"data"} ELSE {})
            call == [Call(op, 0, 0, <<>>, <<>>, <<>>) EXCEPT !.absent = absent]
        IN  /\ absent # {}
            /\ IF null_check(op, absent) THEN ArgFatal(call) ELSE NullDeref(call)
    /\ heap' = heap

\* The caller is done with the result of the last call: it frees the array
\* brin_split gave it and goes on to its next call.
Discard ==
    /\ status = "ok" /\ pc = "idle" /\ last # NoCall
    /\ last' = NoCall
    /\ tokens' = <<>>
    /\ allocFail' = FALSE
    /\ UNCHANGED <<string, length, status, pc, offset, heap>>

Next ==
    \/ Discard
    \/ New
    \/ Destroy
    \/ Concat
    \/ Insert
    \/ InsertAlias
    \/ Remove
    \/ ToLower
    \/ ToUpper
    \/ TrimStart
    \/ TrimEnd
    \/ Trim
    \/ Contains
    \/ Equals
    \/ IndexOf
    \/ IsEmpty
    \/ IsWhitespace
    \/ ReplaceCall
    \/ ReplaceIter
    \/ Split
    \/ Join
    \/ NullCall

Spec == Init /\ [][Next]_vars

\* brin_replace alone, every allocation succeeding.
ReplaceNext ==
    \/ Discard
    \/ ReplaceCall
    \/ ReplaceIterOK

\* The state predicate ENABLED <<ReplaceIterOK>>_vars amounts to: the call is
\* in its loop and the iteration stays within the bound of the model.
LoopEnabled ==
    /\ status = "ok" /\ pc = "replace"
    /\ \E junk \in Indeterminate :
        LET r == replace_body(Cur, offset, last.s, last.t, TRUE, junk)
        IN  \/ r.local_index = -1
            \/ Fits(r.inserted.length, r.offset, Len(last.s), Len(last.t))

\* brin_replace is synchronous: once in its loop it keeps running.  This is
\* WF_vars(ReplaceIterOK) with LoopEnabled for the ENABLED predicate.
LoopFair == <>[]LoopEnabled => []<><<ReplaceIterOK>>_vars

ReplaceSpec == Init /\ [][ReplaceNext]_vars /\ LoopFair

\* ------------------------------------------------------------ the claims

\* The buffer owns a block (it was constructed and not destroyed since).
Owned == heap > 0

\* C1: after any sequence of operations that returned, a live buffer has
\* non-null data, a zero byte at data[length] and no zero byte before it, that
\* is length = strlen(data).
C1_LengthInvariant ==
    (status = "ok" /\ Owned) =>
        /\ string # NULL
        /\ length < Len(string)
        /\ string[length + 1] = 0
        /\ \A i \in 1..length : string[i] # 0
        /\ length = Strlen(string)

C1_Witness ==
    /\ status = "ok" /\ pc = "idle" /\ last.op = "trim_end"
    /\ length > 0 /\ length < last.pre.length

\* The result of one left-to-right pass over s that replaces each
\* non-overlapping occurrence of n by r and never looks at what it wrote.
RECURSIVE RefReplace(_, _, _)
RefReplace(s, n, r) ==
    IF Len(s) < Len(n) THEN s
    ELSE IF SubSeq(s, 1, Len(n)) = n
    THEN r \o RefReplace(SubSeq(s, Len(n) + 1, Len(s)), n, r)
    ELSE <<Head(s)>> \o RefReplace(Tail(s), n, r)

\* C2: when brin_replace returns (its allocations having succeeded) the buffer
\* holds the single-pass replacement of the original content, and length is
\* the length of that result.
C2_ReplaceResult ==
    (status = "ok" /\ pc = "idle" /\ last.op = "replace" /\ ~allocFail) =>
        LET ref == RefReplace(CStr(last.pre.string), last.s, last.t)
        IN  CStr(string) = ref /\ length = Len(ref)

\* A replacement that contains the pattern was put in twice.
C2_Witness ==
    /\ status = "ok" /\ pc = "idle" /\ last.op = "replace" /\ ~allocFail
    /\ Strstr(last.t, last.s) # -1
    /\ length >= last.pre.length + 2

\* C3: with every allocation succeeding the loop of brin_replace ends: each
\* iteration that stays in the loop makes length - offset strictly smaller,
\* and a call in the loop always gets to its return.
C3_ReplaceTerminates ==
    /\ [][(pc = "replace" /\ pc' = "replace") =>
             (length' - offset' < length - offset /\ offset' <= length')]_vars
    /\ (pc = "replace") ~> (pc = "idle")

\* The loop went past an inserted replacement that contains the pattern.
C3_Witness ==
    /\ pc = "replace" /\ offset > 0
    /\ Strstr(last.t, last.s) # -1
    /\ length > last.pre.length

\* C4: brin_insert leaves old[0..index) ++ text ++ old[index..length) and
\* length = old length + len(text); an empty text changes nothing.
C4_InsertResult ==
    (status = "ok" /\ last.op = "insert") =>
        LET old == CStr(last.pre.string)
        IN  /\ CStr(string) = SubSeq(old, 1, last.i) \o last.s
                                \o SubSeq(old, last.i + 1, Len(old))
            /\ length = last.pre.length + Len(last.s)
            /\ (last.s = <<>> => CStr(string) = old)

C4_Witness ==
    /\ status = "ok" /\ last.op = "insert"
    /\ last.i > 0 /\ last.i < last.pre.length /\ Len(last.s) = 2

\* C5: a brin_remove that allocated its new block leaves
\* old[0..start) ++ old[end..length) and length = old length - (end - start);
\* start = end changes nothing.
C5_RemoveResult ==
    (status = "ok" /\ last.op = "remove" /\ ~allocFail) =>
        LET old == CStr(last.pre.string)
        IN  /\ CStr(string) = SubSeq(old, 1, last.i) \o SubSeq(old, last.j + 1, Len(old))
            /\ length = last.pre.length - (last.j - last.i)
            /\ (last.i = last.j => CStr(string) = old)

C5_Witness ==
    /\ status = "ok" /\ last.op = "remove" /\ ~allocFail
    /\ last.i > 0 /\ last.j > last.i /\ last.j < last.pre.length

\* C6: a brin_remove whose allocation fails takes the fatal path and does not
\* return to its caller.
C6_RemoveAllocFailureFatal ==
    (last.op = "remove" /\ allocFail) => status = "fatal"

\* C7: when concat, insert, remove, trim_start or trim_end detects a failed
\* allocation, data and length are those the operation started with and the
\* old block is still allocated.
C7_AtomicOnAllocFailure ==
    (status = "fatal" /\ allocFail
        /\ last.op \in {"concat", "insert", "remove", "trim_start", "trim_end"}) =>
        /\ string = last.pre.string
        /\ length = last.pre.length
        /\ heap = 1

\* The array brin_split returns for the token contents toks.
TokenArray(toks) == [k \in 1..Len(toks) |-> Block(toks[k])] \o <<NULL>>

\* C8: brin_split of what brin_join built, with the same non-empty separator,
\* from non-empty items holding no separator byte, gives the items back in
\* order, then the end sentinel.
C8_RoundTrip ==
    (/\ status = "ok" /\ last.op = "split" /\ last.from = "join"
     /\ last.s = last.t /\ last.s # <<>>
     /\ \A k \in 1..Len(last.items) :
            /\ last.items[k] # <<>>
            /\ Range(last.items[k]) \cap Range(last.s) = {})
    => tokens = TokenArray(last.items)

C8_Witness ==
    /\ status = "ok" /\ last.op = "split" /\ last.from = "join"
    /\ last.s = last.t /\ Len(last.s) = 2
    /\ Len(last.items) = 2
    /\ \A k \in 1..Len(last.items) :
            /\ last.items[k] # <<>>
            /\ Range(last.items[k]) \cap Range(last.s) = {}

\* The maximal non-empty runs of bytes of s outside D, in order.
RunStarts(s, D) ==
    {i \in 1..Len(s) : s[i] \notin D /\ (i = 1 \/ s[i - 1] \in D)}
RunEnd(s, D, i) ==
    CHOOSE j \in i..Len(s) :
        /\ \A k \in i..j : s[k] \notin D
        /\ (j = Len(s) \/ s[j + 1] \in D)
NthOf(S, n) == CHOOSE x \in S : Cardinality({y \in S : y < x}) = n - 1
Runs(s, D) ==
    [n \in 1..Cardinality(RunStarts(s, D)) |->
        LET i == NthOf(RunStarts(s, D), n) IN SubSeq(s, i, RunEnd(s, D, i))]

RECURSIVE RefJoin(_, _)
RefJoin(items, sep) ==
    IF Len(items) = 0 THEN <<>>
    ELSE IF Len(items) = 1 THEN items[1]
    ELSE items[1] \o sep \o RefJoin(Tail(items), sep)

\* C10: brin_join gives items[0] ++ sep ++ ... ++ sep ++ items[n-1], the
\* separator only between consecutive elements; no element gives the empty
\* buffer, one element gives that element; the length invariant holds.
C10_JoinResult ==
    (status = "ok" /\ last.op = "join") =>
        LET ref == RefJoin(last.items, last.s)
        IN  /\ CStr(string) = ref
            /\ length = Len(ref)
            /\ Len(string) = length + 1
            /\ string[length + 1] = 0
            /\ (Len(last.items) = 0 => length = 0)
            /\ (Len(last.items) = 1 => CStr(string) = last.items[1])

C10_Witness ==
    /\ status = "ok" /\ last.op = "join"
    /\ Len(last.items) = 2 /\ last.s # <<>>
    /\ last.items[1] # <<>> /\ last.items[2] # <<>>

\* s without its maximal leading and trailing runs of whitespace bytes.
RefTrim(s) ==
    LET K == {i \in 1..Len(s) : ~isspace(s[i])}
    IN  IF K = {} THEN <<>>
        ELSE SubSeq(s, CHOOSE i \in K : \A k \in K : i <= k,
                       CHOOSE j \in K : \A k \in K : k <= j)

\* C11: brin_trim (trim_end then trim_start) leaves the content without its
\* maximal leading and trailing whitespace runs, with the matching length, and
\* so does trim_start followed by trim_end on the same content.
C11_TrimBothEnds ==
    /\ (status = "ok" /\ last.op = "trim") =>
            LET ref == RefTrim(CStr(last.pre.string))
            IN  CStr(string) = ref /\ length = Len(ref)
    /\ (status = "ok" /\ last.op = "trim_end" /\ last.from = "trim_start") =>
            LET ref == RefTrim(CStr(last.prev.pre.string))
            IN  CStr(string) = ref /\ length = Len(ref)

\* Whitespace was cut at both ends of a content that keeps a byte.
C11_Witness ==
    /\ status = "ok" /\ last.op = "trim"
    /\ length > 0 /\ last.pre.length >= length + 2
    /\ isspace(last.pre.string[1]) /\ isspace(last.pre.string[last.pre.length])

\* C12: on an empty or all-whitespace content brin_trim_end, and brin_trim,
\* return with length 0 and a terminator at data[0]; the backward scan reads
\* only offsets within [0, old length] and the terminator is written within
\* that range.
C12_TrimEndAllWhitespace ==
    (/\ status = "ok" /\ last.op \in {"trim_end", "trim"}
     /\ \A i \in 1..last.pre.length : isspace(last.pre.string[i]))
    => LET scan == scan_back(last.pre.string, last.pre.length - 1, {})
       IN  /\ length = 0
           /\ string[1] = 0
           /\ scan.reads \subseteq 0..last.pre.length
           /\ scan.end = -1
           /\ trim_end_cut(last.pre).new_len \in 0..last.pre.length

\* Two whitespace bytes and nothing else were cut by brin_trim_end.
C12_Witness ==
    /\ status = "ok" /\ last.op = "trim_end"
    /\ last.pre.length = 2 /\ length = 0
    /\ \A i \in 1..last.pre.length : isspace(last.pre.string[i])

\* C13: brin_is_empty returns true exactly when length is 0 and
\* brin_is_whitespace exactly when length > 0 and every byte before data[length]
\* is whitespace; so a buffer just made from "" is empty and not whitespace, and
\* a buffer brin_trim just cut down to length 0 is not whitespace.
C13_EmptyAndWhitespace ==
    /\ (status = "ok" /\ last.op = "is_empty") =>
            /\ last.ret \in {0, 1}
            /\ last.ret = 1 <=> length = 0
            /\ (last.from = "new" /\ last.prev.s = <<>>) => last.ret = 1
    /\ (status = "ok" /\ last.op = "is_whitespace") =>
            /\ last.ret \in {0, 1}
            /\ last.ret = 1 <=> (length > 0 /\ \A i \in 1..length : isspace(string[i]))
            /\ (last.from = "new" /\ last.prev.s = <<>>) => last.ret = 0
            /\ (last.from = "trim" /\ length = 0) => last.ret = 0

\* brin_is_whitespace answered on a buffer brin_trim had just emptied.
C13_Witness ==
    /\ status = "ok" /\ last.op = "is_whitespace" /\ last.from = "trim"
    /\ length = 0 /\ last.prev.pre.length > 0 /\ last.ret = 0

\* C14: brin_insert of a non-empty text at a valid index followed by brin_remove
\* of the range the text occupies (its malloc succeeding) leaves the content
\* and the length the buffer had before the insert.
C14_InsertRemoveInverse ==
    (/\ status = "ok" /\ last.op = "remove" /\ last.from = "insert" /\ ~allocFail
     /\ last.prev.s # <<>>
     /\ last.i = last.prev.i /\ last.j = last.prev.i + Len(last.prev.s))
    => /\ CStr(string) = CStr(last.prev.pre.string)
       /\ length = last.prev.pre.length
       /\ string[length + 1] = 0

\* A text of two bytes was put inside the content and taken out again.
C14_Witness ==
    /\ status = "ok" /\ last.op = "remove" /\ last.from = "insert" /\ ~allocFail
    /\ Len(last.prev.s) = 2
    /\ last.prev.i > 0 /\ last.prev.i < last.prev.pre.length
    /\ last.i = last.prev.i /\ last.j = last.prev.i + 2

\* C15: brin_insert at index length and brin_concat of the same text, from the
\* same buffer, both leave the old content followed by the text, with length
\* the old length plus the length of the text.
C15_InsertAtEndIsConcat ==
    /\ (status = "ok" /\ last.op = "insert" /\ last.i = last.pre.length) =>
            /\ CStr(string) = CStr(last.pre.string) \o last.s
            /\ length = last.pre.length + Len(last.s)
            /\ \A junk \in Indeterminate :
                    LET c == brin_concat(last.pre, last.s, junk)
                    IN  CStr(c.string) = CStr(string) /\ c.length = length
    /\ (status = "ok" /\ last.op = "concat") =>
            /\ CStr(string) = CStr(last.pre.string) \o last.s
            /\ length = last.pre.length + Len(last.s)
            /\ \A junk \in Indeterminate :
                    LET c == brin_insert(last.pre, last.pre.length, last.s, junk)
                    IN  CStr(c.string) = CStr(string) /\ c.length = length

\* Two bytes were appended by brin_insert to a content of two bytes.
C15_Witness ==
    /\ status = "ok" /\ last.op = "insert"
    /\ last.pre.length = 2 /\ last.i = 2 /\ Len(last.s) = 2 /\ length = 4

\* C16: brin_trim called again on what brin_trim returned changes neither the
\* content nor the length; the same holds for brin_trim_start and for
\* brin_trim_end.
C16_TrimIdempotent ==
    \A op \in {"trim", "trim_start", "trim_end"} :
        (status = "ok" /\ last.op = op /\ last.from = op) =>
            /\ CStr(string) = CStr(last.pre.string)
            /\ length = last.pre.length

\* The second brin_trim in a row, the first having cut whitespace at both ends.
C16_Witness ==
    /\ status = "ok" /\ last.op = "trim" /\ last.from = "trim"
    /\ length > 0 /\ last.prev.pre.length >= length + 2
    /\ isspace(last.prev.pre.string[1])

\* C17: brin_to_upper and brin_to_lower put each byte before data[length]
\* through toupper, respectively tolower, and leave the length, the
\* terminator, the bytes after it and the size of the block as they were; a
\* second call in a row changes nothing.
C17_CaseConversion ==
    /\ (status = "ok" /\ last.op = "to_upper") =>
            /\ length = last.pre.length
            /\ Len(string) = Len(last.pre.string)
            /\ \A i \in 1..Len(string) :
                    string[i] = IF i <= length THEN toupper(last.pre.string[i])
                                ELSE last.pre.string[i]
            /\ string[length + 1] = 0
            /\ last.from = "to_upper" => string = last.pre.string
    /\ (status = "ok" /\ last.op = "to_lower") =>
            /\ length = last.pre.length
            /\ Len(string) = Len(last.pre.string)
            /\ \A i \in 1..Len(string) :
                    string[i] = IF i <= length THEN tolower(last.pre.string[i])
                                ELSE last.pre.string[i]
            /\ string[length + 1] = 0
            /\ last.from = "to_lower" => string = last.pre.string

\* The second brin_to_upper in a row, the first having changed a letter and
\* left another byte alone.
C17_Witness ==
    /\ status = "ok" /\ last.op = "to_upper" /\ last.from = "to_upper"
    /\ last.prev.pre.string # string
    /\ \E i \in 1..length : string[i] = last.prev.pre.string[i]

\* C18: an operation other than brin_destroy called with a null buffer
\* pointer, a null b->string, a null string argument or (brin_join) a null
\* element exits through its error path: it does not return, no null pointer
\* is dereferenced and the buffer is as it was.
C18_NullArgumentsFatal ==
    (last.absent # {} /\ last.op # "destroy") =>
        /\ status = "fatal"
        /\ ~allocFail
        /\ string = last.pre.string
        /\ length = last.pre.length

\* brin_replace was called on a buffer whose b->string is null.
C18_Witness ==
    /\ status = "fatal" /\ last.op = "replace" /\ last.absent = {"data"}
    /\ string = NULL

\* C19: brin_destroy called with a null buffer pointer exits through the error
\* path or returns, and does not dereference the pointer.
C19_DestroyNullHandled ==
    (last.op = "destroy" /\ "b" \in last.absent) => status \in {"fatal", "ok"}

\* C20: brin_insert with an index below 0 or above length, brin_remove with
\* start < 0, end < start or end > length, and brin_replace with an empty
\* pattern exit through the error path with content and length untouched; any
\* other index, range or pattern is accepted (the call may then only exit on
\* a failed allocation).
C20_InvalidValuesFatal ==
    /\ (last.op = "insert" /\ last.absent = {}) =>
            IF last.i < 0 \/ last.i > last.pre.length
            THEN /\ status = "fatal" /\ ~allocFail
                 /\ string = last.pre.string /\ length = last.pre.length
            ELSE status = "fatal" => allocFail
    /\ (last.op = "remove" /\ last.absent = {}) =>
            IF last.i < 0 \/ last.j < last.i \/ last.j > last.pre.length
            THEN /\ status = "fatal" /\ ~allocFail
                 /\ string = last.pre.string /\ length = last.pre.length
            ELSE status = "ok"
    /\ (last.op = "replace" /\ last.absent = {}) =>
            IF last.s = <<>>
            THEN /\ status = "fatal" /\ ~allocFail /\ pc = "idle"
                 /\ string = last.pre.string /\ length = last.pre.length
            ELSE status = "fatal" => allocFail

\* brin_insert was refused the index one past the length of a non-empty buffer.
C20_Witness ==
    /\ status = "fatal" /\ last.op = "insert" /\ last.absent = {}
    /\ last.pre.length > 0 /\ last.i = last.pre.length + 1
    /\ string = last.pre.string

\* C21: brin_destroy on a live buffer frees its block and leaves b->string
\* null and length 0; any of the fifteen operations called on the buffer after
\* that exits through its error path, with the buffer still holding no block.
C21_DestroyedBufferFatal ==
    /\ (status = "ok" /\ last.op = "destroy" /\ last.absent = {}
            /\ last.pre.string # NULL) =>
            string = NULL /\ length = 0 /\ heap = 0
    /\ (last.absent = {"data"}) =>
            /\ last.op \in {"concat", "contains", "equals", "index_of", "insert",
                             "is_empty", "is_whitespace", "to_lower", "to_upper",
                             "trim_start", "trim_end", "trim", "remove", "replace",
                             "split"}
            /\ status = "fatal"
            /\ string = NULL /\ length = 0 /\ heap = 0

\* brin_split was called on a destroyed buffer.
C21_Witness ==
    /\ status = "fatal" /\ last.op = "split" /\ last.absent = {"data"}
    /\ string = NULL /\ heap = 0

\* n occurs in s at offset i.
Occurs(s, n, i) ==
    i >= 0 /\ i + Len(n) <= Len(s) /\ \A k \in 1..Len(n) : s[i + k] = n[k]

\* C22: brin_index_of returns the smallest offset at which the needle occurs in
\* the content, -1 when it occurs nowhere; brin_contains is true exactly when
\* brin_index_of is not -1; brin_equals is true exactly when the content and
\* the other string have the same length and the same bytes.
C22_SearchResults ==
    /\ (status = "ok" /\ last.op = "index_of") =>
            LET s == CStr(string)
            IN  IF \E i \in 0..Len(s) : Occurs(s, last.s, i)
                THEN /\ Occurs(s, last.s, last.ret)
                     /\ \A i \in 0..(last.ret - 1) : ~Occurs(s, last.s, i)
                ELSE last.ret = -1
    /\ (status = "ok" /\ last.op = "contains") =>
            /\ last.ret \in {0, 1}
            /\ last.ret = 1 <=> \E i \in 0..length : Occurs(CStr(string), last.s, i)
            /\ last.ret = 1 <=> brin_index_of(Cur, last.s) # -1
    /\ (status = "ok" /\ last.op = "equals") =>
            /\ last.ret \in {0, 1}
            /\ last.ret = 1 <=> /\ Len(last.s) = length
                                /\ \A k \in 1..length : string[k] = last.s[k]

\* brin_index_of found a needle of two bytes past the start, in a content
\* where it occurs again further on.
C22_Witness ==
    /\ status = "ok" /\ last.op = "index_of"
    /\ Len(last.s) = 2 /\ last.ret = 1
    /\ Occurs(CStr(string), last.s, 2)

\* brin_replace returned to its caller.
ReplaceReturned ==
    status = "ok" /\ pc = "idle" /\ last.op = "replace" /\ last.absent = {}

\* C23 as stated: after brin_replace returns (its allocations having
\* succeeded) every occurrence of the pattern in the buffer holds at least one
\* inserted byte.
C23_EveryOccurrenceHasInsertedByte ==
    (ReplaceReturned /\ ~allocFail) =>
        \A i \in 0..length :
            Occurs(CStr(string), last.s, i) =>
                \E k \in 1..Len(last.s) : last.marks[i + k] = 0

\* C23 amended: after brin_replace returns, no occurrence of the pattern that
\* was in the content the call started with is left: an occurrence in the
\* buffer never consists of bytes that were next to each other, in that order,
\* in the original content.
C23_NoOriginalOccurrenceLeft ==
    ReplaceReturned =>
        /\ Len(last.marks) = length
        /\ \A i \in 0..length :
               Occurs(CStr(string), last.s, i) =>
                   \E k \in 1..Len(last.s) :
                       \/ last.marks[i + k] = 0
                       \/ last.marks[i + k] # last.marks[i + 1] + k - 1

\* An occurrence is left whose bytes are all original: the removal of an
\* occurrence between them brought them together.
C23_Witness ==
    /\ ReplaceReturned /\ ~allocFail
    /\ \E i \in 0..length :
           /\ Occurs(CStr(string), last.s, i)
           /\ \A k \in 1..Len(last.s) : last.marks[i + k] # 0

\* C24: brin_contains, brin_equals, brin_index_of, brin_is_empty,
\* brin_is_whitespace and brin_split leave the block, its bytes and the length
\* as they were; the array brin_split returned still holds the same tokens
\* after the buffer is changed by brin_to_upper or destroyed.
C24_QueriesLeaveBuffer ==
    /\ (/\ status = "ok" /\ last.absent = {}
        /\ last.op \in {"contains", "equals", "index_of", "is_empty",
                        "is_whitespace", "split"})
       => string = last.pre.string /\ length = last.pre.length /\ heap = 1
    /\ (status = "ok" /\ last.from = "split" /\ last.op \in {"to_upper", "destroy"})
       => tokens = TokenArray(Runs(CStr(last.pre.string), Range(last.prev.s)))

\* The buffer was destroyed while the caller held two tokens, one of them
\* ended by brin_split at a delimiter.
C24_Witness ==
    /\ status = "ok" /\ last.op = "destroy" /\ last.from = "split"
    /\ string = NULL /\ Len(tokens) = 3

\* C25: whatever allocation fails during brin_replace, a call that returns
\* leaves the single-pass replacement of the original content, with its
\* length.
C25_ReplaceUnderAllocFailure ==
    ReplaceReturned =>
        LET ref == RefReplace(CStr(last.pre.string), last.s, last.t)
        IN  CStr(string) = ref /\ length = Len(ref)

\* C26: when any allocation of brin_split fails the call exits through its
\* error path, having freed every block it had allocated; no allocation
\* result is used before it is tested.
C26_SplitAllocFailure ==
    (last.op = "split" /\ allocFail) => status = "fatal" /\ last.ret = 0

\* C27: brin_insert whose text points into the buffer's own block, at offset
\* k, leaves old[0..index) ++ old[k..length) ++ old[index..length), the text
\* being the content from k as it was before the call.
C27_InsertAliased ==
    (status = "ok" /\ last.op = "insert" /\ last.alias >= 0) =>
        LET old == CStr(last.pre.string)
            text == SubSeq(old, last.alias + 1, Len(old))
        IN  /\ CStr(string) = SubSeq(old, 1, last.i) \o text
                                \o SubSeq(old, last.i + 1, Len(old))
            /\ length = last.pre.length + Len(text)
            /\ string[length + 1] = 0

\* The whole content of two different bytes was inserted into itself, between
\* its two bytes.
C27_Witness ==
    /\ status = "ok" /\ last.op = "insert" /\ last.alias = 0
    /\ last.pre.length = 2 /\ last.i = 1 /\ length = 4
    /\ last.pre.string[1] # last.pre.string[2]

\* C28: the block of a live buffer has room for length + 1 bytes at least, and
\* exactly length + 1 bytes when brin_new, brin_concat, brin_insert,
\* brin_remove, brin_trim_start, brin_trim_end, brin_trim, brin_replace or
\* brin_join has returned; the last byte strcat writes in brin_concat and the
\* last byte memmove reads in brin_trim_start lie inside the block.
C28_ExactFit ==
    /\ (status = "ok" /\ string # NULL) => Len(string) >= length + 1
    /\ (/\ status = "ok" /\ pc = "idle" /\ last.absent = {}
        /\ last.op \in {"new", "concat", "insert", "remove", "trim_start",
                        "trim_end", "trim", "replace", "join"})
       => Len(string) = length + 1
    /\ (status = "ok" /\ last.op = "concat") =>
            Strlen(last.pre.string) + Len(last.s) + 1 <= Len(string)
    /\ (status = "ok" /\ last.op = "trim_start") =>
            SkipSpace(last.pre.string, 0) + trim_start_move(last.pre).new_len + 1
                <= Len(last.pre.string)

\* brin_concat grew the block of a non-empty buffer by two bytes.
C28_Witness ==
    /\ status = "ok" /\ last.op = "concat"
    /\ last.pre.length > 0 /\ Len(last.s) = 2
    /\ Len(string) = Len(last.pre.string) + 2

\* C29: between calls a live buffer owns exactly one allocation and a
\* destroyed buffer owns none, also between the iterations of brin_replace;
\* nothing is released that is not owned, so that brin_destroy on a destroyed
\* buffer releases nothing.
C29_StorageLifecycle ==
    /\ heap >= 0
    /\ status = "ok" => heap = (IF string # NULL THEN 1 ELSE 0)
    /\ (status = "ok" /\ last.op = "destroy" /\ last.absent = {}) =>
            /\ string = NULL /\ heap = 0
            /\ last.pre.string = NULL => destroy_frees(last.pre) = 0

\* brin_destroy returned on a buffer that was already destroyed.
C29_Witness ==
    /\ status = "ok" /\ last.op = "destroy" /\ last.absent = {}
    /\ last.pre.string = NULL /\ heap = 0

\* C30: at the start of every iteration of the loop of brin_replace the scan
\* offset lies in 0..length, and when the search finds a match the ranges
\* handed to brin_remove and brin_insert pass their tests (also when
\* brin_remove returned without removing); a brin_replace with a non-empty
\* pattern exits only on a failed allocation.
C30_ReplaceLoopInvariant ==
    /\ (status = "ok" /\ pc = "replace") =>
            /\ 0 <= offset /\ offset <= length
            /\ \A okRem \in BOOLEAN :
                   LET r == replace_body(Cur, offset, last.s, last.t, okRem, 0)
                   IN  r.local_index # -1 =>
                           /\ ~remove_invalid(Cur, r.global_index,
                                              r.global_index + Len(last.s))
                           /\ ~insert_invalid(r.removed, r.global_index)
                           /\ r.offset <= r.inserted.length
    /\ (status = "fatal" /\ last.op = "replace" /\ last.absent = {} /\ last.s # <<>>)
           => allocFail

\* An iteration starts past the first replacement with a further match ahead.
C30_Witness ==
    /\ status = "ok" /\ pc = "replace" /\ offset > 0
    /\ replace_find(Cur, offset, last.s, 0) # -1
    /\ Len(last.s) # Len(last.t)

====
